---- MODULE Spec2Model ----
(***************************************************************************)
(* The conversion pipeline of autocxx's engine:                            *)
(* engine/src/conversion/mod.rs, BridgeConverter::convert and              *)
(* check_for_fatal_attrs.                                                  *)
(*                                                                         *)
(* convert is one straight-line function.  Every statement of it that     *)
(* calls a phase is one action here, and pc is the position in the body.  *)
(* The phases themselves (parse_items, analyze_pod_apis, the filters, the *)
(* garbage collector, the two code generators) live in submodules; they   *)
(* are modelled by what the specification says of them, on a collection   *)
(* of API records reduced to: which records are present, which are marked *)
(* unsupported, and which phases have annotated the collection.           *)
(* dump_apis only logs and changes no state, so it has no action.         *)
(***************************************************************************)
EXTENDS Naturals, Sequences, FiniteSets

(* ------------------------------ bounds -------------------------------- *)

\* The largest number of declarations bindgen hands over in one module.
MaxItems == 3

\* The largest number of dependency edges among the declarations.
MaxDeps == 2

\* The largest number of declarations that are unsupported on their own.
MaxFlawed == 1

\* The largest number of segments of a qualified name.
MaxSegments == 2

(* ------------------------------- names -------------------------------- *)

\* Identifiers are numbered.  A QualifiedName is its list of segments.
Idents == 1..MaxItems

QualifiedNames == UNION {[1..n -> Idents] : n \in 1..MaxSegments}

\* The name of the i-th declaration of the module: a name in the root
\* namespace.
ItemName(i) == <<i>>

\* QualifiedName::get_final_ident: the last segment.
get_final_ident(name) == name[Len(name)]

\* ErrorContext::new_for_item
new_for_item(id) == [kind |-> "Item", id |-> id]

\* autocxx_bindgen::callbacks::Visibility
CppVisibility == {"Public", "Protected", "Private"}

(* ----------------------- check_for_fatal_attrs ------------------------ *)

\* The value Ok(()) of a Result<(), ConvertErrorWithContext>; an error has
\* ok = FALSE, the ConvertErrorFromCpp variant and the Option<ErrorContext>.
OkUnit == [ok |-> TRUE, err |-> "None", ctx |-> [kind |-> "None", id |-> 0]]

ConvertErrorWithContext(err, ctx) == [ok |-> FALSE, err |-> err, ctx |-> ctx]

\* ParseCallbackResults is a pair of maps over names.
discards_template_param(callback_results, name) ==
    callback_results.discards[name]

get_cpp_visibility(callback_results, name) ==
    callback_results.visibility[name]

\* The two tests in the opposite order (used to show the precedence matters).
check_for_fatal_attrs_VisibilityFirst(callback_results, name) ==
    IF get_cpp_visibility(callback_results, name) # "Public"
    THEN ConvertErrorWithContext("NonPublicNestedType",
                                 new_for_item(get_final_ident(name)))
    ELSE IF discards_template_param(callback_results, name)
    THEN ConvertErrorWithContext("UnusedTemplateParam",
                                 new_for_item(get_final_ident(name)))
    ELSE OkUnit

check_for_fatal_attrs(callback_results, name) ==
    IF discards_template_param(callback_results, name)
    THEN ConvertErrorWithContext("UnusedTemplateParam",
                                 new_for_item(get_final_ident(name)))
    ELSE IF get_cpp_visibility(callback_results, name) # "Public"
    THEN ConvertErrorWithContext("NonPublicNestedType",
                                 new_for_item(get_final_ident(name)))
    ELSE OkUnit

(* ------------------------- the record collection --------------------- *)

\* An ApiVec: the records present (by declaration number), what each one
\* refers to (deps: <<a, b>> says a depends on b), the records marked
\* unsupported with the error recorded against each, and the phases that
\* have annotated the collection so far.
EmptyApis == [recs |-> {}, deps |-> {}, ignored |-> {}, notes |-> <<>>]

Annotate(apis, phase) == [apis EXCEPT !.notes = Append(@, phase)]

IgnoredItems(apis) == {r.item : r \in apis.ignored}

\* ParseBindgen::parse_items: one record per declaration; a declaration
\* that fails check_for_fatal_attrs is kept as an unsupported record with
\* the error recorded against it.
parse_items(n_items, item_deps, callback_results) ==
    [recs    |-> 1..n_items,
     deps    |-> item_deps,
     ignored |-> {[item |-> i,
                   err  |-> check_for_fatal_attrs(callback_results,
                                                  ItemName(i))] :
                  i \in {j \in 1..n_items :
                         ~check_for_fatal_attrs(callback_results,
                                                ItemName(j)).ok}},
     notes   |-> <<"parse_items">>]

convert_typedef_targets(apis) == Annotate(apis, "convert_typedef_targets")

\* analyze_pod_apis when it succeeds.
analyze_pod_apis(apis) == Annotate(apis, "analyze_pod_apis")

replace_hopeless_typedef_targets(apis) ==
    Annotate(apis, "replace_hopeless_typedef_targets")

add_casts(apis) == Annotate(apis, "add_casts")

create_alloc_and_frees(apis) == Annotate(apis, "create_alloc_and_frees")

analyze_functions(apis) == Annotate(apis, "analyze_functions")

mark_types_abstract(apis) == Annotate(apis, "mark_types_abstract")

decorate_types_with_constructor_deps(apis) ==
    Annotate(apis, "decorate_types_with_constructor_deps")

discard_ignored_functions(apis) == Annotate(apis, "discard_ignored_functions")

\* check_names: a record whose bridge-facing name is illegal is marked
\* unsupported; a record already marked keeps its first error.
check_names(apis, illegal) ==
    Annotate([apis EXCEPT !.ignored =
                 @ \cup {[item |-> i,
                          err  |-> ConvertErrorWithContext(
                                       "InvalidIdent",
                                       new_for_item(get_final_ident(ItemName(i))))] :
                         i \in (apis.recs \cap illegal) \ IgnoredItems(apis)}],
             "check_names")

\* The records to remove with the unsupported ones: whatever depends on a
\* removed record, repeated until nothing more is added.
RECURSIVE IgnoredClosure(_, _)
IgnoredClosure(gone, apis) ==
    LET more == {a \in apis.recs \ gone :
                    \E b \in gone : <<a, b>> \in apis.deps}
    IN  IF more = {} THEN gone ELSE IgnoredClosure(gone \cup more, apis)

filter_apis_by_ignored_dependents(apis) ==
    LET gone == IgnoredClosure(IgnoredItems(apis) \cap apis.recs, apis)
    IN  Annotate([apis EXCEPT !.recs = @ \ gone,
                              !.deps = {e \in @ : e[1] \notin gone}],
                 "filter_apis_by_ignored_dependents")

\* The traversal from the roots: todo is the work list, seen what it has
\* reached; a dependency that is not in the collection is not followed.
RECURSIVE FollowEdges(_, _, _)
FollowEdges(todo, seen, apis) ==
    IF todo = {} THEN seen
    ELSE LET a    == CHOOSE x \in todo : TRUE
             next == {b \in apis.recs : <<a, b>> \in apis.deps} \ seen
         IN  FollowEdges((todo \ {a}) \cup next, seen \cup next, apis)

filter_apis_by_following_edges_from_allowlist(apis, cfg) ==
    LET roots == apis.recs \cap cfg.allowlist
        kept  == FollowEdges(roots, roots, apis)
    IN  Annotate([apis EXCEPT !.recs = kept,
                              !.deps = {e \in @ : e[1] \in kept}],
                 "filter_apis_by_following_edges_from_allowlist")

append_ctype_information(apis) == Annotate(apis, "append_ctype_information")

\* Option<CppFilePair>: None, or the pair with its header_name.
NoneCpp == [some |-> FALSE, header_name |-> "None"]

SomeCpp(header_name) == [some |-> TRUE, header_name |-> header_name]

\* Option<String>
NoneString == [some |-> FALSE, value |-> "None"]

SomeString(v) == [some |-> TRUE, value |-> v]

\* RsCodeGenerator::generate_rs_code: the items rendered from the records,
\* which name the shim header they were given, if any.
generate_rs_code(apis, cpp_header) ==
    [items |-> apis.recs, cpp_header |-> cpp_header]

(* ------------------------------ the state ----------------------------- *)

VARIABLES
    bindgen_mod,            \* the ItemMod: has it content, and how many items
    item_deps,              \* what the declarations refer to
    parse_callback_results, \* the parser's flags of each declaration's name
    illegal_names,          \* the declarations whose bridge name is illegal
    config,                 \* the IncludeCppConfig: its allow-list
    pc,                     \* the statement of convert to run next
    apis,                   \* convert's local apis
    analyzed_apis,          \* convert's local analyzed_apis
    cxxgen_header_name,     \* convert's local cxxgen_header_name
    cpp,                    \* convert's local cpp
    cpp_header_arg,         \* the header name generate_cpp_code was given
    result,                 \* what convert returned
    trace,                  \* the phases called so far, in order
    attr_name,              \* check_for_fatal_attrs: its argument name
    attr_result             \* check_for_fatal_attrs: what it returned

vars == <<bindgen_mod, item_deps, parse_callback_results, illegal_names,
          config, pc, apis, analyzed_apis, cxxgen_header_name, cpp,
          cpp_header_arg, result, trace, attr_name, attr_result>>

codegen == <<cxxgen_header_name, cpp, cpp_header_arg>>

inputs == <<bindgen_mod, item_deps, parse_callback_results, illegal_names,
            config, attr_name, attr_result>>

\* ConvertError
NoError == [variant |-> "None", inner |-> "None"]

NoContent == [variant |-> "NoContent", inner |-> "None"]

Cpp(inner) == [variant |-> "Cpp", inner |-> inner]

\* Result<CodegenResults, ConvertError>
NoRs == [items |-> {}, cpp_header |-> NoneString]

Pending ==
    [status |-> "Pending", err |-> NoError, rs |-> NoRs, cpp |-> NoneCpp,
     cxxgen_header_name |-> "None"]

Err(e) == [Pending EXCEPT !.status = "Err", !.err = e]

Ok(rs, file_pair, header) ==
    [status |-> "Ok", err |-> NoError, rs |-> rs, cpp |-> file_pair,
     cxxgen_header_name |-> header]

\* The names CxxgenHeaderNamer::name_header may give, and the header names
\* a generated CppFilePair may carry.
CxxgenHeaderNames == {"cxxgen.h"}

ShimHeaderNames == {"autocxxgen_ffi.h", "cxxgen.h"}

\* The errors parse_items may return.
ParseErrors == {NoContent, Cpp("ParseError")}

(* ------------------------------- inputs ------------------------------- *)

\* The parser's flags of the declarations of a module under conversion.
ItemFlags == {<<FALSE, "Public">>, <<TRUE, "Public">>, <<FALSE, "Private">>}

CallbackResults(n) ==
    {[discards   |-> [nm \in {ItemName(i) : i \in 1..n} |-> f[nm[1]][1]],
      visibility |-> [nm \in {ItemName(i) : i \in 1..n} |-> f[nm[1]][2]]] :
     f \in [1..n -> ItemFlags]}

DepSets(n) ==
    {d \in SUBSET {e \in (1..n) \X (1..n) : e[1] # e[2]} :
        Cardinality(d) <= MaxDeps}

Flawed(n, cb, bad) ==
    {i \in 1..n : ~check_for_fatal_attrs(cb, ItemName(i)).ok} \cup bad

\* Renaming the declarations changes nothing but the names, so the
\* unsupported ones are taken to be the last ones declared.
DeclaredLast(n, flawed) == \A i \in flawed : \A j \in i..n : j \in flawed

Idle ==
    /\ pc = "start"
    /\ apis = EmptyApis
    /\ analyzed_apis = EmptyApis
    /\ cxxgen_header_name = "None"
    /\ cpp = NoneCpp
    /\ cpp_header_arg = "None"
    /\ result = Pending
    /\ trace = <<>>

\* convert is entered with a module of up to MaxItems declarations, up to
\* MaxDeps references among them, and up to MaxFlawed of them unsupported:
\* each of those either by a flag of the parser or by its name, not both.
Init ==
    /\ bindgen_mod \in [has_content : BOOLEAN, n_items : 0..MaxItems]
    /\ ~bindgen_mod.has_content => bindgen_mod.n_items = 0
    /\ item_deps \in DepSets(bindgen_mod.n_items)
    /\ parse_callback_results \in CallbackResults(bindgen_mod.n_items)
    /\ illegal_names \in SUBSET (1..bindgen_mod.n_items)
    /\ LET flawed == Flawed(bindgen_mod.n_items, parse_callback_results,
                             illegal_names)
       IN  /\ Cardinality(flawed) <= MaxFlawed
           /\ DeclaredLast(bindgen_mod.n_items, flawed)
           /\ Flawed(bindgen_mod.n_items, parse_callback_results, {})
                  \cap illegal_names = {}
    /\ config \in [allowlist : SUBSET (1..bindgen_mod.n_items)]
    /\ attr_name = <<1>>
    /\ attr_result = OkUnit
    /\ Idle

(* -------------------- BridgeConverter::convert ------------------------ *)

\* (A converter that does not look at content and parses whatever it got.)
ConvertNoContent_ParsesAnyway ==
    /\ pc = "start"
    /\ ~bindgen_mod.has_content
    /\ pc' = "parse_items"
    /\ UNCHANGED <<inputs, apis, analyzed_apis, codegen, result, trace>>

\* match &bindgen_mod.content { None => Err(ConvertError::NoContent), ...
ConvertNoContent ==
    /\ pc = "start"
    /\ ~bindgen_mod.has_content
    /\ result' = Err(NoContent)
    /\ pc' = "done"
    /\ UNCHANGED <<inputs, apis, analyzed_apis, codegen, trace>>

\* ... Some((_, items)) => { let parser = ParseBindgen::new(..);
ConvertSomeContent ==
    /\ pc = "start"
    /\ bindgen_mod.has_content
    /\ pc' = "parse_items"
    /\ UNCHANGED <<inputs, apis, analyzed_apis, codegen, result, trace>>

\* let apis = parser.parse_items(items, source_file_contents)?;   -- Ok
ParseItems ==
    /\ pc = "parse_items"
    /\ apis' = parse_items(bindgen_mod.n_items, item_deps,
                           parse_callback_results)
    /\ trace' = Append(trace, "parse_items")
    /\ pc' = "convert_typedef_targets"
    /\ UNCHANGED <<inputs, analyzed_apis, codegen, result>>

\* ... parse_items(..)?   -- Err: the error is returned as it is
ParseItemsFail ==
    /\ pc = "parse_items"
    /\ \E e \in ParseErrors : result' = Err(e)
    /\ trace' = Append(trace, "parse_items")
    /\ pc' = "done"
    /\ UNCHANGED <<inputs, apis, analyzed_apis, codegen>>

\* let apis = convert_typedef_targets(self.config, apis, ..);
ConvertTypedefTargets ==
    /\ pc = "convert_typedef_targets"
    /\ apis' = convert_typedef_targets(apis)
    /\ trace' = Append(trace, "convert_typedef_targets")
    /\ pc' = "analyze_pod_apis"
    /\ UNCHANGED <<inputs, analyzed_apis, codegen, result>>

\* let analyzed_apis = analyze_pod_apis(apis, ..).map_err(ConvertError::Cpp)?;
AnalyzePodApis ==
    /\ pc = "analyze_pod_apis"
    /\ analyzed_apis' = analyze_pod_apis(apis)
    /\ trace' = Append(trace, "analyze_pod_apis")
    /\ pc' = "replace_hopeless_typedef_targets"
    /\ UNCHANGED <<inputs, apis, codegen, result>>

\* (The POD failure reported as if there had been nothing to convert.)
AnalyzePodApisFail_AsNoContent ==
    /\ pc = "analyze_pod_apis"
    /\ apis.recs # {}
    /\ result' = Err(NoContent)
    /\ trace' = Append(trace, "analyze_pod_apis")
    /\ pc' = "done"
    /\ UNCHANGED <<inputs, apis, analyzed_apis, codegen>>

\* ... analyze_pod_apis(..) returns Err: a type of the collection that the
\* user asked to be POD cannot be; .map_err(ConvertError::Cpp)? returns it
\* from convert.
AnalyzePodApisFail ==
    /\ pc = "analyze_pod_apis"
    /\ apis.recs # {}
    /\ result' = Err(Cpp("UnsafePodType"))
    /\ trace' = Append(trace, "analyze_pod_apis")
    /\ pc' = "done"
    /\ UNCHANGED <<inputs, apis, analyzed_apis, codegen>>

\* A statement  let analyzed_apis = phase(analyzed_apis);
Analysis(phase, next, left) ==
    /\ pc = phase
    /\ analyzed_apis' = left
    /\ trace' = Append(trace, phase)
    /\ pc' = next
    /\ UNCHANGED <<inputs, apis, codegen, result>>

ReplaceHopelessTypedefTargets ==
    Analysis("replace_hopeless_typedef_targets", "add_casts",
             replace_hopeless_typedef_targets(analyzed_apis))

AddCasts ==
    Analysis("add_casts", "create_alloc_and_frees", add_casts(analyzed_apis))

\* (analyze_functions left out of the sequence.)
CreateAllocAndFrees_ThenMarkAbstract ==
    Analysis("create_alloc_and_frees", "mark_types_abstract",
             create_alloc_and_frees(analyzed_apis))

CreateAllocAndFrees ==
    Analysis("create_alloc_and_frees", "analyze_functions",
             create_alloc_and_frees(analyzed_apis))

AnalyzeFunctions ==
    Analysis("analyze_functions", "mark_types_abstract",
             analyze_functions(analyzed_apis))

MarkTypesAbstract ==
    Analysis("mark_types_abstract", "decorate_types_with_constructor_deps",
             mark_types_abstract(analyzed_apis))

DecorateTypesWithConstructorDeps ==
    Analysis("decorate_types_with_constructor_deps",
             "discard_ignored_functions",
             decorate_types_with_constructor_deps(analyzed_apis))

\* (check_names left out of the sequence.)
DiscardIgnoredFunctions_ThenCascade ==
    Analysis("discard_ignored_functions", "filter_apis_by_ignored_dependents",
             discard_ignored_functions(analyzed_apis))

DiscardIgnoredFunctions ==
    Analysis("discard_ignored_functions", "check_names",
             discard_ignored_functions(analyzed_apis))

\* (An illegal name treated as fatal for the whole run.)
CheckNames_Fatal ==
    IF analyzed_apis.recs \cap illegal_names = {}
    THEN Analysis("check_names", "filter_apis_by_ignored_dependents",
                  check_names(analyzed_apis, illegal_names))
    ELSE /\ pc = "check_names"
         /\ result' = Err(Cpp("InvalidIdent"))
         /\ trace' = Append(trace, "check_names")
         /\ pc' = "done"
         /\ UNCHANGED <<inputs, apis, analyzed_apis, codegen>>

\* (The cascade run before the names are checked.)
CheckNames_AfterCascade ==
    /\ pc = "check_names"
    /\ analyzed_apis' =
           check_names(filter_apis_by_ignored_dependents(analyzed_apis),
                       illegal_names)
    /\ trace' = trace \o <<"filter_apis_by_ignored_dependents", "check_names">>
    /\ pc' = "filter_apis_by_following_edges_from_allowlist"
    /\ UNCHANGED <<inputs, apis, codegen, result>>

CheckNames ==
    Analysis("check_names", "filter_apis_by_ignored_dependents",
             check_names(analyzed_apis, illegal_names))

\* (The garbage collector run before the cascade.)
FilterApisByIgnoredDependents_AfterGC ==
    /\ pc = "filter_apis_by_ignored_dependents"
    /\ analyzed_apis' =
           filter_apis_by_ignored_dependents(
               filter_apis_by_following_edges_from_allowlist(analyzed_apis,
                                                             config))
    /\ trace' = trace \o <<"filter_apis_by_following_edges_from_allowlist",
                            "filter_apis_by_ignored_dependents">>
    /\ pc' = "append_ctype_information"
    /\ UNCHANGED <<inputs, apis, codegen, result>>

FilterApisByIgnoredDependents ==
    Analysis("filter_apis_by_ignored_dependents",
             "filter_apis_by_following_edges_from_allowlist",
             filter_apis_by_ignored_dependents(analyzed_apis))

FilterApisByFollowingEdgesFromAllowlist ==
    Analysis("filter_apis_by_following_edges_from_allowlist",
             "append_ctype_information",
             filter_apis_by_following_edges_from_allowlist(analyzed_apis,
                                                           config))

\* analysis::ctypes::append_ctype_information(&mut analyzed_apis);
AppendCtypeInformation ==
    Analysis("append_ctype_information", "name_header",
             append_ctype_information(analyzed_apis))

\* let cxxgen_header_name = codegen_options...cxxgen_header_namer.name_header();
NameHeader ==
    /\ pc = "name_header"
    /\ cxxgen_header_name' \in CxxgenHeaderNames
    /\ pc' = "generate_cpp_code"
    /\ UNCHANGED <<inputs, apis, analyzed_apis, cpp, cpp_header_arg, result,
                   trace>>

\* let cpp = CppCodeGenerator::generate_cpp_code(.., &analyzed_apis, ..,
\*     &cxxgen_header_name).map_err(ConvertError::Cpp)?;   -- Ok(None) or
\* Ok(Some(file pair)); the collection is only borrowed.
GenerateCppCode ==
    /\ pc = "generate_cpp_code"
    /\ cpp' \in {NoneCpp} \cup {SomeCpp(h) : h \in ShimHeaderNames}
    /\ cpp_header_arg' = cxxgen_header_name
    /\ trace' = Append(trace, "generate_cpp_code")
    /\ pc' = "generate_rs_code"
    /\ UNCHANGED <<inputs, apis, analyzed_apis, cxxgen_header_name, result>>

\* (The error of generate_cpp_code noted, and the run carried on.)
GenerateCppCodeFail_CarriesOn ==
    /\ pc = "generate_cpp_code"
    /\ result' = Err(Cpp("CppCodegenError"))
    /\ cpp_header_arg' = cxxgen_header_name
    /\ trace' = Append(trace, "generate_cpp_code")
    /\ pc' = "generate_rs_code"
    /\ UNCHANGED <<inputs, apis, analyzed_apis, cxxgen_header_name, cpp>>

\* ... generate_cpp_code(..) returns Err; .map_err(ConvertError::Cpp)?
GenerateCppCodeFail ==
    /\ pc = "generate_cpp_code"
    /\ result' = Err(Cpp("CppCodegenError"))
    /\ cpp_header_arg' = cxxgen_header_name
    /\ trace' = Append(trace, "generate_cpp_code")
    /\ pc' = "done"
    /\ UNCHANGED <<inputs, apis, analyzed_apis, cxxgen_header_name, cpp>>

\* (generate_rs_code always given the cxxgen header name.)
GenerateRsCode_CxxgenHeader ==
    /\ pc = "generate_rs_code"
    /\ LET rs == generate_rs_code(analyzed_apis,
                                  SomeString(cxxgen_header_name))
       IN  result' = Ok(rs, cpp, cxxgen_header_name)
    /\ trace' = Append(trace, "generate_rs_code")
    /\ pc' = "done"
    /\ UNCHANGED <<inputs, apis, analyzed_apis, codegen>>

\* let rs = RsCodeGenerator::generate_rs_code(analyzed_apis, ..,
\*     cpp.as_ref().map(|file_pair| file_pair.header_name.clone()));
\* Ok(CodegenResults { rs, cpp, cxxgen_header_name })
GenerateRsCode ==
    /\ pc = "generate_rs_code"
    /\ LET header == IF cpp.some THEN SomeString(cpp.header_name)
                     ELSE NoneString
           rs     == generate_rs_code(analyzed_apis, header)
       IN  result' = Ok(rs, cpp, cxxgen_header_name)
    /\ trace' = Append(trace, "generate_rs_code")
    /\ pc' = "done"
    /\ UNCHANGED <<inputs, apis, analyzed_apis, codegen>>

Next ==
    \/ ConvertNoContent
    \/ ConvertSomeContent
    \/ ParseItems
    \/ ParseItemsFail
    \/ ConvertTypedefTargets
    \/ AnalyzePodApis
    \/ AnalyzePodApisFail
    \/ ReplaceHopelessTypedefTargets
    \/ AddCasts
    \/ CreateAllocAndFrees
    \/ AnalyzeFunctions
    \/ MarkTypesAbstract
    \/ DecorateTypesWithConstructorDeps
    \/ DiscardIgnoredFunctions
    \/ CheckNames
    \/ FilterApisByIgnoredDependents
    \/ FilterApisByFollowingEdgesFromAllowlist
    \/ AppendCtypeInformation
    \/ NameHeader
    \/ GenerateCppCode
    \/ GenerateCppCodeFail
    \/ GenerateRsCode

Spec == Init /\ [][Next]_vars

(* ----------------- check_for_fatal_attrs on its own ------------------- *)

\* Every name of up to MaxSegments segments, with every pair of flags the
\* parser can have recorded for it.
InitAttrs ==
    /\ attr_name \in QualifiedNames
    /\ parse_callback_results \in
           [discards : [{attr_name} -> BOOLEAN],
            visibility : [{attr_name} -> CppVisibility]]
    /\ attr_result = OkUnit
    /\ bindgen_mod = [has_content |-> FALSE, n_items |-> 0]
    /\ item_deps = {}
    /\ illegal_names = {}
    /\ config = [allowlist |-> {}]
    /\ apis = EmptyApis
    /\ analyzed_apis = EmptyApis
    /\ cxxgen_header_name = "None"
    /\ cpp = NoneCpp
    /\ cpp_header_arg = "None"
    /\ result = Pending
    /\ trace = <<>>
    /\ pc = "check_for_fatal_attrs"

CheckForFatalAttrs ==
    /\ pc = "check_for_fatal_attrs"
    /\ attr_result' = check_for_fatal_attrs(parse_callback_results, attr_name)
    /\ pc' = "checked"
    /\ UNCHANGED <<bindgen_mod, item_deps, parse_callback_results,
                   illegal_names, config, attr_name, apis, analyzed_apis,
                   codegen, result, trace>>

NextAttrs == CheckForFatalAttrs

SpecAttrs == InitAttrs /\ [][NextAttrs]_vars

(* ------------------------------ properties ---------------------------- *)

\* The phases of convert, in the order of its body.
PhaseOrder ==
    <<"parse_items", "convert_typedef_targets", "analyze_pod_apis",
      "replace_hopeless_typedef_targets", "add_casts",
      "create_alloc_and_frees", "analyze_functions", "mark_types_abstract",
      "decorate_types_with_constructor_deps", "discard_ignored_functions",
      "check_names", "filter_apis_by_ignored_dependents",
      "filter_apis_by_following_edges_from_allowlist",
      "append_ctype_information", "generate_cpp_code", "generate_rs_code">>

PhaseIndex(phase) == CHOOSE k \in 1..Len(PhaseOrder) : PhaseOrder[k] = phase

IsPhase(p) == \E k \in 1..Len(PhaseOrder) : PhaseOrder[k] = p

\* The phases that annotate the collection: all but the two generators.
Annotating == SubSeq(PhaseOrder, 1, 14)

Prefix(seq, k) == SubSeq(seq, 1, k)

Min(a, b) == IF a < b THEN a ELSE b

\* The phase whose call ended the run, when convert returned an error.
FailedPhase == IF trace = <<>> THEN "none" ELSE trace[Len(trace)]

Items == 1..bindgen_mod.n_items

\* The declarations that are unsupported on their own, read off the inputs.
FlaggedItems ==
    {i \in Items : \/ parse_callback_results.discards[ItemName(i)]
                   \/ parse_callback_results.visibility[ItemName(i)] # "Public"}

Unsupported == FlaggedItems \cup illegal_names

\* The transitive closure of a relation, by squaring.
RECURSIVE TransitiveClosure(_)
TransitiveClosure(R) ==
    LET RR == R \cup {<<p[1][1], p[2][2]>> :
                        p \in {q \in R \X R : q[1][2] = q[2][1]}}
    IN  IF RR = R THEN R ELSE TransitiveClosure(RR)

\* u and whatever depends on a member of u through any chain of references.
WithDependents(u) ==
    LET refers == TransitiveClosure(item_deps)
    IN  {a \in Items : a \in u \/ \E b \in u : <<a, b>> \in refers}

\* What is reachable from the roots inside the set s of records.
ReachableWithin(s, roots) ==
    LET inside == TransitiveClosure({e \in item_deps :
                                        e[1] \in s /\ e[2] \in s})
    IN  (roots \cap s) \cup
        {b \in s : \E r \in roots \cap s : <<r, b>> \in inside}

\* What code generation is given when the records of u are the unsupported
\* ones.
FinalRecords(u) ==
    ReachableWithin(Items \ WithDependents(u), config.allowlist)

\* The collection has been handed to code generation.
HandedToCodegen ==
    \/ pc \in {"name_header", "generate_cpp_code", "generate_rs_code"}
    \/ pc = "done" /\ Len(trace) >= 15

PerItemErrors == {"UnusedTemplateParam", "NonPublicNestedType", "InvalidIdent"}

\* C1 as stated: with no declarations at all (no content, or an empty item
\* list) convert returns NoContent and no phase runs.
C1_NoDeclarationsNoPhase ==
    (~bindgen_mod.has_content \/ bindgen_mod.n_items = 0) =>
        /\ trace = <<>>
        /\ pc = "done" => result = Err(NoContent)

\* C1 amended: a module with no content makes convert return NoContent
\* with no phase run and no CodegenResults; a module that has content, even
\* an empty item list, is handed to parse_items.
C1_NoContentNoPhase ==
    /\ ~bindgen_mod.has_content =>
          /\ trace = <<>>
          /\ pc \in {"start", "done"}
          /\ pc = "done" => result = Err(NoContent)
    /\ (bindgen_mod.has_content /\ pc = "done") => trace # <<>>

C1_Witness ==
    /\ ~bindgen_mod.has_content
    /\ pc = "done"
    /\ result = Err(NoContent)

\* C2: the phases run one at a time in the order of PhaseOrder, each once;
\* a run that returns Ok ran them all; the collection a phase is given is
\* the one annotated by exactly the phases before it; the phases that insert
\* records have run before the garbage collector does.
C2_PhaseOrder ==
    /\ Len(trace) <= Len(PhaseOrder)
    /\ \A i \in 1..Len(trace) : trace[i] = PhaseOrder[i]
    /\ result.status = "Ok" => trace = PhaseOrder
    /\ IsPhase(pc) =>
          /\ Len(trace) = PhaseIndex(pc) - 1
          /\ (IF PhaseIndex(pc) <= 3 THEN apis ELSE analyzed_apis).notes
                = Prefix(Annotating, Min(PhaseIndex(pc) - 1, 14))
    /\ result.status = "Ok" => /\ analyzed_apis.notes = Annotating
                               /\ result.rs.items = analyzed_apis.recs
    /\ pc = "filter_apis_by_following_edges_from_allowlist" =>
          \A p \in {"add_casts", "create_alloc_and_frees", "analyze_functions"} :
              \E i \in 1..Len(trace) : trace[i] = p

C2_Witness ==
    /\ result.status = "Ok"
    /\ trace = PhaseOrder
    /\ bindgen_mod.n_items >= 2
    /\ result.rs.items # {}

\* C3: when parse_items, analyze_pod_apis or generate_cpp_code fails,
\* convert is over at once: the failed call is the last one made,
\* generate_rs_code was never called, and nothing of a CodegenResults
\* comes back.
C3_NoPartialOutput ==
    result.status = "Err" =>
        /\ pc = "done"
        /\ FailedPhase \in {"none", "parse_items", "analyze_pod_apis",
                            "generate_cpp_code"}
        /\ \A i \in 1..Len(trace) : trace[i] # "generate_rs_code"
        /\ result.rs = NoRs
        /\ result.cpp = NoneCpp
        /\ result.cxxgen_header_name = "None"

C3_Witness ==
    /\ result.status = "Err"
    /\ FailedPhase = "generate_cpp_code"
    /\ cpp_header_arg # "None"

\* C4 as stated: none of the per-item failures, the POD request on a type
\* that cannot be POD among them, is ever what convert returns.
C4_PerItemNeverAborts ==
    result.status = "Err" =>
        result.err.inner \notin (PerItemErrors \cup {"UnsafePodType"})

\* C4 amended: an unused template parameter, a non-public nested type and
\* an illegal bridge name never end the run: the error is recorded against
\* the record, the record and whatever depends on it are gone from what
\* code generation is given, and every later phase still runs.  A POD
\* request that cannot be met does end the run, with ConvertError::Cpp.
C4_PerItemRecordedAndRemoved ==
    /\ result.status = "Err" => result.err.inner \notin PerItemErrors
    /\ Len(trace) >= 11 => IgnoredItems(analyzed_apis) = Unsupported
    /\ Len(trace) >= 12 =>
          analyzed_apis.recs \cap WithDependents(Unsupported) = {}
    /\ result.status = "Ok" =>
          /\ trace = PhaseOrder
          /\ result.rs.items \cap WithDependents(Unsupported) = {}
    /\ (result.status = "Err" /\ FailedPhase = "analyze_pod_apis") =>
          result.err = Cpp("UnsafePodType")

C4_Witness ==
    /\ result.status = "Ok"
    /\ Unsupported # {}
    /\ WithDependents(Unsupported) # Unsupported
    /\ result.rs.items # {}

\* C5 as stated: a failure of generate_cpp_code carries a tag of its own,
\* neither that of "no content" nor that of an analysis failure.
C5_CodegenTagOfItsOwn ==
    (result.status = "Err" /\ FailedPhase = "generate_cpp_code") =>
        result.err.variant \notin {NoContent.variant,
                                   Cpp("UnsafePodType").variant}

\* C5 amended: the tag tells "no content" from a C++-side error; a failure
\* of analyze_pod_apis and a failure of generate_cpp_code both come back as
\* ConvertError::Cpp, told apart only by what Cpp wraps.
C5_TwoTags ==
    result.status = "Err" =>
        /\ FailedPhase = "none" => result.err = NoContent
        /\ FailedPhase \in {"analyze_pod_apis", "generate_cpp_code"} =>
              result.err.variant = "Cpp"
        /\ result.err.variant \in {"NoContent", "Cpp"}

C5_Witness ==
    /\ result.status = "Err"
    /\ FailedPhase = "generate_cpp_code"
    /\ result.err.variant = "Cpp"

\* C6: in a run that returns Ok, generate_rs_code was given a header name
\* exactly when generate_cpp_code produced a file pair, and then that
\* pair's header_name; the cpp returned is that pair, and the
\* cxxgen_header_name returned is the name generate_cpp_code was given.
C6_DualOutputConsistency ==
    result.status = "Ok" =>
        /\ result.rs.cpp_header.some <=> cpp.some
        /\ cpp.some => result.rs.cpp_header.value = cpp.header_name
        /\ result.cpp = cpp
        /\ result.cxxgen_header_name = cpp_header_arg
        /\ cpp_header_arg \in CxxgenHeaderNames

C6_Witness ==
    /\ result.status = "Ok"
    /\ result.cpp.some
    /\ result.rs.cpp_header = SomeString(result.cpp.header_name)
    /\ result.cpp.header_name # result.cxxgen_header_name

C8_CascadeClosure ==
    pc = "filter_apis_by_following_edges_from_allowlist" =>
        /\ \A r \in Unsupported : r \notin analyzed_apis.recs
        /\ LET refers == TransitiveClosure(item_deps)
           IN  \A a \in Items :
                  (\E r \in Unsupported : <<a, r>> \in refers)
                      => a \notin analyzed_apis.recs
        /\ \A a \in Items :
              a \notin WithDependents(Unsupported) => a \in analyzed_apis.recs

\* A record removed for depending on an unsupported one only through
\* another record, while an unrelated record stays.
C8_Witness ==
    /\ pc = "filter_apis_by_following_edges_from_allowlist"
    /\ \E a, b, u \in Items :
          /\ u \in Unsupported
          /\ {<<a, b>>, <<b, u>>} \subseteq item_deps
          /\ <<a, u>> \notin item_deps
          /\ a \notin analyzed_apis.recs

\* What the allow-list reaches when nothing is unsupported.
ReachedByAllowlist == ReachableWithin(Items, config.allowlist)

\* C9: check_names runs right before the cascade and the cascade right
\* before the garbage collector; a record rejected by check_names is gone
\* with its dependents after the cascade; an unsupported record is never
\* what convert fails with; and the unsupported records that no root
\* reaches do not change what code generation is given.
C9_CascadeBeforeGC ==
    /\ pc = "filter_apis_by_ignored_dependents" =>
          FailedPhase = "check_names"
    /\ pc = "filter_apis_by_following_edges_from_allowlist" =>
          /\ FailedPhase = "filter_apis_by_ignored_dependents"
          /\ analyzed_apis.recs \cap WithDependents(illegal_names) = {}
    /\ result.status = "Err" => result.err.inner \notin PerItemErrors
    /\ HandedToCodegen =>
          analyzed_apis.recs
              = FinalRecords(Unsupported \cap ReachedByAllowlist)

C9_Witness ==
    /\ result.status = "Ok"
    /\ illegal_names # {}
    /\ illegal_names \cap ReachedByAllowlist = {}
    /\ WithDependents(illegal_names) # illegal_names
    /\ result.rs.items # {}

\* C10: check_for_fatal_attrs returns UnusedTemplateParam if the name
\* discards a template parameter, whatever its visibility; otherwise
\* NonPublicNestedType if the name is not public; otherwise Ok; and every
\* error carries the item context of the name's last segment.
C10_FatalAttrs ==
    pc = "checked" =>
        LET discards == parse_callback_results.discards[attr_name]
            public   == parse_callback_results.visibility[attr_name] = "Public"
        IN  /\ attr_result.ok <=> (public /\ ~discards)
            /\ discards => attr_result.err = "UnusedTemplateParam"
            /\ (~discards /\ ~public) =>
                   attr_result.err = "NonPublicNestedType"
            /\ attr_result.ok => attr_result = OkUnit
            /\ ~attr_result.ok =>
                   attr_result.ctx =
                       [kind |-> "Item", id |-> attr_name[Len(attr_name)]]

\* Both conditions hold at once, on a nested name.
C10_Witness ==
    /\ pc = "checked"
    /\ Len(attr_name) = 2
    /\ attr_name[1] # attr_name[2]
    /\ parse_callback_results.discards[attr_name]
    /\ parse_callback_results.visibility[attr_name] = "Private"
    /\ attr_result.err = "UnusedTemplateParam"

====
